---- MODULE Spec2Model ----
(***************************************************************************)
(* Tool provisioning pipeline of src/src/agents/pi-tools.ts:               *)
(* policy resolution, tool assembly and the execution wrappers.            *)
(*                                                                         *)
(* Strings of the program are sequences of one-character strings, so that  *)
(* trim(), toLowerCase(), includes() and concatenation are computed.       *)
(***************************************************************************)
EXTENDS Naturals, Sequences, FiniteSets, TLC

VARIABLES
    phase,      \* "idle" | "probed" | "resolved" | "assembled" | "threw" |
                \* "normalized" | "corrected" | "named"
    probe,      \* last evaluation of isToolAllowedByPolicyName: name, policy, outcome
    resolved,   \* last evaluation of resolveEffectiveToolPolicy: inputs and result
    opts,       \* the options createClawdbotCodingTools was called with
    tools,      \* the list createClawdbotCodingTools returned
    asmAborted, \* options.abortSignal.aborted
    call,       \* the tool invocation in flight (or the last one)
    calls,      \* number of invocations made so far
    flattened,  \* last evaluation of normalizeToolParameters: schema in and out
    readResult, \* last evaluation of normalizeReadImageResult: result in and out
    named       \* last evaluation of normalizeToolName: name in, out, out again

evals == <<flattened, readResult, named>>
vars == <<phase, probe, resolved, opts, tools, asmAborted, call, calls, evals>>

----------------------------------------------------------------------------
(* Bounds of the model *)

\* longest allow/deny list evaluated by the policy probe
MaxListLen == 2

\* tool invocations made on one assembled list
MaxCalls == 2

----------------------------------------------------------------------------
(* Strings *)

UpperChars == <<"A","B","C","D","E","F","G","H","I","J","K","L","M",
                "N","O","P","Q","R","S","T","U","V","W","X","Y","Z">>
LowerChars == <<"a","b","c","d","e","f","g","h","i","j","k","l","m",
                "n","o","p","q","r","s","t","u","v","w","x","y","z">>

WhiteSpace == {" ", "\t", "\n"}

LowerChar(c) ==
    IF \E i \in 1..Len(UpperChars) : UpperChars[i] = c
    THEN LowerChars[CHOOSE i \in 1..Len(UpperChars) : UpperChars[i] = c]
    ELSE c

\* the characters of the model's strings
Chars ==
    {UpperChars[i] : i \in 1..Len(UpperChars)}
    \cup {LowerChars[i] : i \in 1..Len(LowerChars)}
    \cup WhiteSpace \cup {"_", "-", "/", ".", "4", "5"}

LowerTable == [c \in Chars |-> LowerChar(c)]

\* String.prototype.toLowerCase
ToLowerCase(s) == [i \in 1..Len(s) |-> LowerTable[s[i]]]

RECURSIVE TrimStart(_)
TrimStart(s) ==
    IF s # <<>> /\ Head(s) \in WhiteSpace THEN TrimStart(Tail(s)) ELSE s

RECURSIVE TrimEnd(_)
TrimEnd(s) ==
    IF s # <<>> /\ s[Len(s)] \in WhiteSpace
    THEN TrimEnd(SubSeq(s, 1, Len(s) - 1))
    ELSE s

\* String.prototype.trim
Trim(s) == TrimEnd(TrimStart(s))

\* String.prototype.includes, for a one-character needle
Includes(s, c) == \E i \in 1..Len(s) : s[i] = c

----------------------------------------------------------------------------
(* Tool names *)

N_read == <<"r","e","a","d">>
N_write == <<"w","r","i","t","e">>
N_edit == <<"e","d","i","t">>
N_bash == <<"b","a","s","h">>
N_exec == <<"e","x","e","c">>
N_process == <<"p","r","o","c","e","s","s">>
N_apply_patch == <<"a","p","p","l","y","_","p","a","t","c","h">>
N_apply_dash_patch == <<"a","p","p","l","y","-","p","a","t","c","h">>
N_browser == <<"b","r","o","w","s","e","r">>
N_message == <<"m","e","s","s","a","g","e">>
N_login == <<"l","o","g","i","n">>
N_sessions_list == <<"s","e","s","s","i","o","n","s","_","l","i","s","t">>
N_sessions_history ==
    <<"s","e","s","s","i","o","n","s","_","h","i","s","t","o","r","y">>
N_sessions_send == <<"s","e","s","s","i","o","n","s","_","s","e","n","d">>
N_sessions_spawn == <<"s","e","s","s","i","o","n","s","_","s","p","a","w","n">>

\* spellings a configuration file or a collaborator may use
N_BASH == <<"B","A","S","H">>
N_Exec_padded == <<" ","E","x","e","c","\t">>
N_Write_padded == <<" ","W","r","i","t","e"," ">>
N_blank == <<" ">>
N_empty == <<>>

\* TOOL_NAME_ALIASES
AliasKeys == {N_bash, N_apply_dash_patch}

TOOL_NAME_ALIASES(n) ==
    CASE n = N_bash -> N_exec
      [] n = N_apply_dash_patch -> N_apply_patch

normalizeToolName_NoAlias(name) == ToLowerCase(Trim(name))

\* the alias looked up before the name is trimmed and lower-cased
normalizeToolName_AliasFirst(name) ==
    ToLowerCase(Trim(IF name \in AliasKeys THEN TOOL_NAME_ALIASES(name)
                     ELSE name))

normalizeToolName(name) ==
    LET normalized == ToLowerCase(Trim(name))
    IN  IF normalized \in AliasKeys THEN TOOL_NAME_ALIASES(normalized)
        ELSE normalized

----------------------------------------------------------------------------
(* Configuration values *)

\* A value found under an allow or deny key of the configuration:
\*   "absent" : the key is missing (undefined)
\*   "array"  : an array of strings, items
\*   "falsy"  : a value that is not an array and is falsy (null, "", 0)
\*   "truthy" : a value that is not an array and is truthy (a string, an object)
Absent == [kind |-> "absent", items |-> <<>>]
Arr(items) == [kind |-> "array", items |-> items]
Falsy == [kind |-> "falsy", items |-> <<>>]
Truthy == [kind |-> "truthy", items |-> <<>>]

\* Array.isArray
IsArray(v) == v.kind = "array"

\* A tool policy object, or undefined
NoPolicy == [defined |-> FALSE, allow |-> Absent, deny |-> Absent]
Policy(a, d) == [defined |-> TRUE, allow |-> a, deny |-> d]

\* Outcomes of an evaluation that may throw
Ok(v) == [threw |-> FALSE, value |-> v]
Threw == [threw |-> TRUE, value |-> FALSE]

\* F(x), with x evaluated once
Eval(F(_), x) == CHOOSE y \in {F(v) : v \in {x}} : TRUE

RECURSIVE FilterSeq(_, _)
FilterSeq(s, keep) ==
    IF s = <<>> THEN <<>>
    ELSE IF Head(s) \in keep THEN <<Head(s)>> \o FilterSeq(Tail(s), keep)
         ELSE FilterSeq(Tail(s), keep)

Range(s) == {s[i] : i \in 1..Len(s)}

----------------------------------------------------------------------------
(* Policy evaluation *)

RECURSIVE MapNormalize(_)
MapNormalize(list) ==
    IF list = <<>> THEN <<>>
    ELSE <<normalizeToolName(Head(list))>> \o MapNormalize(Tail(list))

RECURSIVE DropEmpty(_)
DropEmpty(list) ==
    IF list = <<>> THEN <<>>
    ELSE IF Head(list) = <<>> THEN DropEmpty(Tail(list))
         ELSE <<Head(list)>> \o DropEmpty(Tail(list))

\* list.map(normalizeToolName).filter(Boolean); a truthy value that is not an
\* array has no map method, and the call throws a TypeError
normalizeToolNames(list) ==
    CASE list.kind \in {"absent", "falsy"} -> Ok(<<>>)
      [] list.kind = "array" -> Ok(DropEmpty(MapNormalize(list.items)))
      [] list.kind = "truthy" -> Threw

isToolAllowedByPolicyName_AllowFirst(name, policy) ==
    IF ~policy.defined THEN Ok(TRUE)
    ELSE
      LET denyR == normalizeToolNames(policy.deny)
          allowR == normalizeToolNames(policy.allow)
      IN  IF denyR.threw \/ allowR.threw THEN Threw
          ELSE
            LET deny == Range(denyR.value)
                allowRaw == allowR.value
                normalized == normalizeToolName(name)
            IN  IF Len(allowRaw) > 0 /\ normalized \in Range(allowRaw)
                THEN Ok(TRUE)
                ELSE IF normalized \in deny THEN Ok(FALSE)
                ELSE IF Len(allowRaw) > 0
                THEN Ok(normalized = N_apply_patch /\ N_exec \in Range(allowRaw))
                ELSE Ok(TRUE)

isToolAllowedByPolicyName_AllowIgnored(name, policy) ==
    IF ~policy.defined THEN Ok(TRUE)
    ELSE
      LET denyR == normalizeToolNames(policy.deny)
          allowR == normalizeToolNames(policy.allow)
      IN  IF denyR.threw \/ allowR.threw THEN Threw
          ELSE Ok(normalizeToolName(name) \notin Range(denyR.value))

isToolAllowedByPolicyName(name, policy) ==
    IF ~policy.defined THEN Ok(TRUE)
    ELSE
      LET denyR == normalizeToolNames(policy.deny)
          allowR == normalizeToolNames(policy.allow)
      IN  IF denyR.threw \/ allowR.threw THEN Threw
          ELSE
            LET deny == Range(denyR.value)
                allowRaw == allowR.value
                hasAllow == Len(allowRaw) > 0
                allow == Range(allowRaw)
                normalized == normalizeToolName(name)
            IN  IF normalized \in deny THEN Ok(FALSE)
                ELSE IF hasAllow
                THEN IF normalized \in allow THEN Ok(TRUE)
                     ELSE IF normalized = N_apply_patch /\ N_exec \in allow
                          THEN Ok(TRUE)
                          ELSE Ok(FALSE)
                ELSE Ok(TRUE)

filterToolsByPolicy_KeepAll(toolList, policy) == Ok(toolList)

filterToolsByPolicy(toolList, policy) ==
    IF ~policy.defined THEN Ok(toolList)
    ELSE
      LET verdict == [i \in 1..Len(toolList) |->
                        isToolAllowedByPolicyName(toolList[i].name, policy)]
      IN  IF \E i \in 1..Len(toolList) : verdict[i].threw THEN Threw
          ELSE Ok(FilterSeq(toolList,
                    {toolList[i] : i \in {j \in 1..Len(toolList) :
                                            verdict[j].value}}))

isToolAllowedByPolicy(name, policy) == isToolAllowedByPolicyName(name, policy)

\* policies.every(...): evaluation stops at the first policy that rejects
RECURSIVE isToolAllowedByPolicies(_, _)
isToolAllowedByPolicies(name, policies) ==
    IF policies = <<>> THEN Ok(TRUE)
    ELSE LET r == isToolAllowedByPolicy(name, Head(policies))
         IN  IF r.threw THEN Threw
             ELSE IF ~r.value THEN Ok(FALSE)
             ELSE isToolAllowedByPolicies(name, Tail(policies))

DEFAULT_SUBAGENT_TOOL_DENY ==
    <<N_sessions_list, N_sessions_history, N_sessions_send, N_sessions_spawn>>

\* configured = cfg.tools.subagents.tools (a policy object or undefined)
resolveSubagentToolPolicy_ConfiguredOnly(configured) ==
    Policy(IF IsArray(configured.allow) THEN configured.allow ELSE Absent,
           IF IsArray(configured.deny) THEN configured.deny ELSE Arr(<<>>))

resolveSubagentToolPolicy(configured) ==
    LET deny == DEFAULT_SUBAGENT_TOOL_DENY \o
                  (IF IsArray(configured.deny) THEN configured.deny.items
                   ELSE <<>>)
        allow == IF IsArray(configured.allow) THEN configured.allow ELSE Absent
    IN  Policy(allow, Arr(deny))

----------------------------------------------------------------------------
(* Session keys and per-agent configuration *)

AgentIds == {"main", "work"}

\* A session key, or undefined. The classification of a key (the agent it
\* names, whether it is a subagent session) is the routing module's.
NoSessionKey == [defined |-> FALSE, agent |-> "main", subagent |-> FALSE]
SessionKey(a, sub) == [defined |-> TRUE, agent |-> a, subagent |-> sub]

resolveAgentIdFromSessionKey(sessionKey) == sessionKey.agent
isSubagentSessionKey(sessionKey) == sessionKey.defined /\ sessionKey.subagent

\* config.agents: the tools object of each configured agent (NoPolicy: none)
resolveAgentConfig(config, agentId) == config.agents[agentId]

NoAgent == "(none)"

resolveEffectiveToolPolicy_Merged(config, sessionKey) ==
    LET agentTools == IF sessionKey.defined
                      THEN resolveAgentConfig(config, sessionKey.agent)
                      ELSE NoPolicy
        hasAgentToolPolicy ==
            agentTools.defined /\
            (IsArray(agentTools.allow) \/ IsArray(agentTools.deny))
        globalTools == config.tools
    IN  [agentId |-> IF sessionKey.defined THEN sessionKey.agent ELSE NoAgent,
         policy |->
            IF hasAgentToolPolicy
            THEN Policy(agentTools.allow,
                        IF IsArray(agentTools.deny) /\ IsArray(globalTools.deny)
                        THEN Arr(agentTools.deny.items \o globalTools.deny.items)
                        ELSE IF IsArray(agentTools.deny) THEN agentTools.deny
                        ELSE globalTools.deny)
            ELSE globalTools]

resolveEffectiveToolPolicy(config, sessionKey) ==
    LET agentId == IF sessionKey.defined
                   THEN resolveAgentIdFromSessionKey(sessionKey)
                   ELSE NoAgent
        agentTools == IF agentId # NoAgent
                      THEN resolveAgentConfig(config, agentId)
                      ELSE NoPolicy
        hasAgentToolPolicy ==
            agentTools.defined /\
            (IsArray(agentTools.allow) \/ IsArray(agentTools.deny))
        globalTools == config.tools
    IN  [agentId |-> agentId,
         policy |-> IF hasAgentToolPolicy THEN agentTools ELSE globalTools]

----------------------------------------------------------------------------
(* Patch-tool gating *)

\* An optional string
NoStr == [defined |-> FALSE, s |-> <<>>]
Str(s) == [defined |-> TRUE, s |-> s]

S_openai == <<"o","p","e","n","a","i">>
S_openai_codex == <<"o","p","e","n","a","i","-","c","o","d","e","x">>
S_anthropic == <<"a","n","t","h","r","o","p","i","c">>
S_gpt5 == <<"g","p","t","-","5">>
S_gpt4 == <<"g","p","t","-","4">>
S_openai_gpt5 == S_openai \o <<"/">> \o S_gpt5

isOpenAIProvider(provider) ==
    /\ provider.defined
    /\ LET normalized == ToLowerCase(Trim(provider.s))
       IN  normalized = S_openai \/ normalized = S_openai_codex

isApplyPatchAllowedForModel_Always(modelProvider, modelId, allowModelsCfg) ==
    TRUE

isApplyPatchAllowedForModel(modelProvider, modelId, allowModelsCfg) ==
    LET allowModels == IF IsArray(allowModelsCfg) THEN allowModelsCfg.items
                       ELSE <<>>
        trimmedId == IF modelId.defined THEN Trim(modelId.s) ELSE <<>>
        normalizedModelId == ToLowerCase(trimmedId)
        provider == IF modelProvider.defined
                    THEN ToLowerCase(Trim(modelProvider.s)) ELSE <<>>
        normalizedFull ==
            IF provider # <<>> /\ ~Includes(normalizedModelId, "/")
            THEN provider \o <<"/">> \o normalizedModelId
            ELSE normalizedModelId
    IN  IF Len(allowModels) = 0 THEN TRUE
        ELSE IF trimmedId = <<>> THEN FALSE
        ELSE \E i \in 1..Len(allowModels) :
                LET normalized == ToLowerCase(Trim(allowModels[i]))
                IN  /\ normalized # <<>>
                    /\ (normalized = normalizedModelId \/ normalized = normalizedFull)

----------------------------------------------------------------------------
(* Tool parameter schemas *)

\* an array-valued keyword: absent, or the array
NoList == [present |-> FALSE, items |-> <<>>]
List(items) == [present |-> TRUE, items |-> items]

\* a literal value and its typeof
Lit(ty, v) == [ty |-> ty, v |-> v]
NoValue == [present |-> FALSE, value |-> Lit("undefined", "")]
Value(lit) == [present |-> TRUE, value |-> lit]

\* The schema of one property. type = "" when the schema has no type key.
PlainProp(type) ==
    [type |-> type, enum |-> NoList, const |-> NoValue, anyOf |-> NoList,
     oneOf |-> NoList, title |-> NoStr, description |-> NoStr,
     default |-> NoValue]
EnumProp(type, values) == [PlainProp(type) EXCEPT !.enum = List(values)]
ConstProp(type, lit) == [PlainProp(type) EXCEPT !.const = Value(lit)]
AnyOfProp(variants) == [PlainProp("") EXCEPT !.anyOf = List(variants)]
OneOfProp(variants) == [PlainProp("") EXCEPT !.oneOf = List(variants)]

RECURSIVE extractEnumValues(_)
extractEnumValues(schema) ==
    IF schema.enum.present THEN schema.enum
    ELSE IF schema.const.present THEN List(<<schema.const.value>>)
    ELSE
      LET variants == IF schema.anyOf.present THEN schema.anyOf
                      ELSE IF schema.oneOf.present THEN schema.oneOf
                      ELSE NoList
          RECURSIVE flatMap(_)
          flatMap(vs) ==
              IF vs = <<>> THEN <<>>
              ELSE extractEnumValues(Head(vs)).items \o flatMap(Tail(vs))
      IN  IF ~variants.present THEN NoList
          ELSE LET values == flatMap(variants.items)
               IN  IF Len(values) > 0 THEN List(values) ELSE NoList

\* Array.from(new Set(values)): first occurrences, in order
RECURSIVE Dedupe(_)
Dedupe(values) ==
    IF values = <<>> THEN <<>>
    ELSE LET init == Dedupe(SubSeq(values, 1, Len(values) - 1))
             last == values[Len(values)]
         IN  IF last \in Range(init) THEN init ELSE Append(init, last)

\* the first of the two sources that has the key
FirstStr(a, b) == IF a.defined THEN a ELSE b
FirstValue(a, b) == IF a.present THEN a ELSE b

mergePropertySchemas(existing, incoming) ==
    LET existingEnum == extractEnumValues(existing)
        incomingEnum == extractEnumValues(incoming)
    IN  IF existingEnum.present \/ incomingEnum.present
        THEN LET values == Dedupe(existingEnum.items \o incomingEnum.items)
                 types == {values[i].ty : i \in 1..Len(values)}
             IN  [type |-> IF Cardinality(types) = 1
                           THEN (CHOOSE t \in types : TRUE) ELSE "",
                  enum |-> List(values),
                  const |-> NoValue, anyOf |-> NoList, oneOf |-> NoList,
                  title |-> FirstStr(existing.title, incoming.title),
                  description |->
                      FirstStr(existing.description, incoming.description),
                  default |-> FirstValue(existing.default, incoming.default)]
        ELSE existing

\* a properties object: its entries in insertion order
NoProps == [present |-> FALSE, entries |-> <<>>]
Props(entries) == [present |-> TRUE, entries |-> entries]
Entry(key, schema) == [key |-> key, schema |-> schema]
Keys(entries) == {entries[i].key : i \in 1..Len(entries)}
Lookup(entries, key) ==
    (CHOOSE i \in 1..Len(entries) : entries[i].key = key)

\* one alternative of a union
Variant(properties, required) ==
    [properties |-> properties, required |-> required]

\* tool.parameters. hasType: "type" in schema. unsupported: the schema
\* carries a keyword the provider rejects.
NoParameters ==
    [defined |-> FALSE, hasType |-> FALSE, properties |-> NoProps,
     required |-> NoList, anyOf |-> NoList, oneOf |-> NoList,
     title |-> NoStr, description |-> NoStr,
     additionalProperties |-> "absent", unsupported |-> FALSE]
Schema(hasType, properties, required, anyOf, oneOf, unsupported) ==
    [NoParameters EXCEPT !.defined = TRUE, !.hasType = hasType,
                         !.properties = properties, !.required = required,
                         !.anyOf = anyOf, !.oneOf = oneOf,
                         !.unsupported = unsupported]

\* The keyword scrubber of the schema module: the schema without the
\* keywords the provider rejects.
cleanSchemaForGemini(schema) == [schema EXCEPT !.unsupported = FALSE]

\* mergedProperties after the properties of one alternative
RECURSIVE MergeEntries(_, _)
MergeEntries(merged, entries) ==
    IF entries = <<>> THEN merged
    ELSE
      LET e == Head(entries)
          next ==
            IF e.key \notin Keys(merged) THEN Append(merged, e)
            ELSE LET i == Lookup(merged, e.key)
                 IN  [merged EXCEPT
                        ![i].schema = mergePropertySchemas(@, e.schema)]
      IN  MergeEntries(next, Tail(entries))

\* requiredCounts after the required list of one alternative
RECURSIVE CountRequired(_, _)
CountRequired(counts, keys) ==
    IF keys = <<>> THEN counts
    ELSE
      LET k == Head(keys)
          next ==
            IF k \notin Keys(counts) THEN Append(counts, [key |-> k, n |-> 1])
            ELSE LET i == Lookup(counts, k)
                 IN  [counts EXCEPT ![i].n = @ + 1]
      IN  CountRequired(next, Tail(keys))

\* the loop over the alternatives
RECURSIVE MergeVariants(_, _)
MergeVariants(acc, variants) ==
    IF variants = <<>> THEN acc
    ELSE
      LET v == Head(variants)
          next ==
            IF ~v.properties.present THEN acc
            ELSE [objectVariants |-> acc.objectVariants + 1,
                  mergedProperties |->
                      MergeEntries(acc.mergedProperties, v.properties.entries),
                  requiredCounts |->
                      IF v.required.present
                      THEN CountRequired(acc.requiredCounts, v.required.items)
                      ELSE acc.requiredCounts]
      IN  MergeVariants(next, Tail(variants))

\* every key that some alternative requires
SelectKeys_Any(counts, n) == [i \in 1..Len(counts) |-> counts[i].key]

SelectKeys(counts, n) ==
    LET kept == FilterSeq(counts, {c \in Range(counts) : c.n = n})
    IN  [i \in 1..Len(kept) |-> kept[i].key]

normalizeSchema_Rule1(schema) ==
    schema.hasType /\ schema.properties.present /\ ~schema.anyOf.present

normalizeSchema_Rule2(schema) ==
    /\ ~schema.hasType
    /\ (schema.properties.present \/ schema.required.present)
    /\ ~schema.anyOf.present
    /\ ~schema.oneOf.present

\* the flattened schema of a union
flattenUnion(schema, variants) ==
    LET acc == MergeVariants([objectVariants |-> 0, mergedProperties |-> <<>>,
                              requiredCounts |-> <<>>], variants)
        baseRequired == schema.required
        mergedRequired ==
            IF baseRequired.present /\ Len(baseRequired.items) > 0
            THEN baseRequired
            ELSE IF acc.objectVariants > 0
            THEN List(SelectKeys(acc.requiredCounts, acc.objectVariants))
            ELSE NoList
    IN  cleanSchemaForGemini(
          [defined |-> TRUE, hasType |-> TRUE,
           properties |->
               IF Len(acc.mergedProperties) > 0
               THEN Props(acc.mergedProperties)
               ELSE IF schema.properties.present THEN schema.properties
               ELSE Props(<<>>),
           required |->
               IF mergedRequired.present /\ Len(mergedRequired.items) > 0
               THEN mergedRequired ELSE NoList,
           anyOf |-> NoList, oneOf |-> NoList,
           title |-> schema.title, description |-> schema.description,
           additionalProperties |->
               IF schema.additionalProperties # "absent"
               THEN schema.additionalProperties ELSE "true",
           unsupported |-> FALSE])

\* the parameters of the tool normalizeToolParameters returns
normalizeSchema(schema) ==
    IF ~schema.defined THEN schema
    ELSE IF normalizeSchema_Rule1(schema) THEN cleanSchemaForGemini(schema)
    ELSE IF normalizeSchema_Rule2(schema)
    THEN cleanSchemaForGemini([schema EXCEPT !.hasType = TRUE])
    ELSE IF schema.anyOf.present THEN flattenUnion(schema, schema.anyOf.items)
    ELSE IF schema.oneOf.present THEN flattenUnion(schema, schema.oneOf.items)
    ELSE schema

normalizeToolParameters(tool) ==
    [tool EXCEPT !.parameters = normalizeSchema(tool.parameters)]

----------------------------------------------------------------------------
(* Tools and tool assembly *)

\* A tool: its name, the implementation underneath and the wrappers around
\* its execute, outermost first:
\*   "abort"     wrapToolWithAbortSignal
\*   "guard"     wrapSandboxPathGuard
\*   "paramnorm" wrapToolParamNormalization
\*   "readimage" createClawdbotReadTool
\* parameters: the tool's parameter schema
ObjectSchema ==
    Schema(TRUE, Props(<<Entry("path", PlainProp("string"))>>),
           List(<<"path">>), NoList, NoList, TRUE)
Tool(name, impl, layers) ==
    [name |-> name, impl |-> impl, layers |-> layers,
     parameters |-> ObjectSchema]
WithParameters(tool, schema) == [tool EXCEPT !.parameters = schema]

\* a union of two actions, as the schema compiler emits it: no top-level type
ActionUnionSchema ==
    Schema(FALSE, NoProps, NoList,
           List(<<Variant(Props(<<Entry("action",
                                        ConstProp("string", Lit("string", "open"))),
                                  Entry("url", PlainProp("string"))>>),
                          List(<<"action", "url">>)),
                  Variant(Props(<<Entry("action",
                                        ConstProp("string", Lit("string", "close")))>>),
                          List(<<"action">>))>>),
           NoList, TRUE)

\* the schema of a tool that takes no arguments
NoArgumentSchema == Schema(TRUE, NoProps, NoList, NoList, NoList, TRUE)

\* the tools of the coding-agent package, in its order
codingTools ==
    << Tool(N_read, "read", <<>>), Tool(N_bash, "bash", <<>>),
       Tool(N_edit, "edit", <<>>), Tool(N_write, "write", <<>>) >>

\* provider-defined agent tools
listProviderAgentTools ==
    << WithParameters(Tool(N_login, "login", <<>>), NoArgumentSchema) >>

\* browser, messaging and session tools
createClawdbotTools ==
    << WithParameters(Tool(N_browser, "browser", <<>>), ActionUnionSchema),
       Tool(N_message, "message", <<>>),
       Tool(N_sessions_list, "sessions_list", <<>>),
       Tool(N_sessions_history, "sessions_history", <<>>),
       Tool(N_sessions_send, "sessions_send", <<>>),
       Tool(N_sessions_spawn, "sessions_spawn", <<>>) >>

wrapSandboxPathGuard_None(tool) == tool

wrapSandboxPathGuard(tool) == [tool EXCEPT !.layers = <<"guard">> \o @]
wrapToolParamNormalization(tool) == [tool EXCEPT !.layers = <<"paramnorm">> \o @]
createClawdbotReadTool(base) == [base EXCEPT !.layers = <<"readimage">> \o @]

createSandboxedReadTool ==
    wrapSandboxPathGuard(createClawdbotReadTool(Tool(N_read, "read", <<>>)))
createSandboxedWriteTool ==
    wrapSandboxPathGuard(wrapToolParamNormalization(Tool(N_write, "write", <<>>)))
createSandboxedEditTool ==
    wrapSandboxPathGuard(wrapToolParamNormalization(Tool(N_edit, "edit", <<>>)))

\* hasAbortSignal: options.abortSignal was supplied
wrapToolWithAbortSignal(tool, hasAbortSignal) ==
    IF ~hasAbortSignal THEN tool
    ELSE [tool EXCEPT !.layers = <<"abort">> \o @]

\* A sandbox context, or null
NoSandbox ==
    [present |-> FALSE, enabled |-> FALSE, workspaceAccess |-> "rw",
     tools |-> NoPolicy]
Sandbox(enabled, access, policy) ==
    [present |-> TRUE, enabled |-> enabled, workspaceAccess |-> access,
     tools |-> policy]

\* options.sandbox?.enabled ? options.sandbox : undefined
sandboxOf(options) == options.sandbox.present /\ options.sandbox.enabled

allowWorkspaceWritesOf_Always(options) == TRUE

\* sandbox?.workspaceAccess !== "ro"
allowWorkspaceWritesOf(options) ==
    ~(sandboxOf(options) /\ options.sandbox.workspaceAccess = "ro")

subagentPolicyOf(options) ==
    IF isSubagentSessionKey(options.sessionKey) /\ options.sessionKey.defined
    THEN resolveSubagentToolPolicy(options.config.subagents)
    ELSE NoPolicy

applyPatchEnabledOf(options) ==
    /\ options.config.applyPatch.enabled
    /\ isOpenAIProvider(options.modelProvider)
    /\ isApplyPatchAllowedForModel(options.modelProvider, options.modelId,
                                   options.config.applyPatch.allowModels)

\* codingTools.flatMap(...): the read, write and edit tools are rebuilt, the
\* package's execution tool is dropped
RECURSIVE baseTools(_, _)
baseTools(list, sandboxRoot) ==
    IF list = <<>> THEN <<>>
    ELSE
      LET tool == Head(list)
          mapped ==
            CASE tool.name = N_read ->
                   IF sandboxRoot THEN <<createSandboxedReadTool>>
                   ELSE <<createClawdbotReadTool(Tool(N_read, "read", <<>>))>>
              [] tool.name = N_bash \/ tool.name = N_exec -> <<>>
              [] tool.name = N_write ->
                   IF sandboxRoot THEN <<>>
                   ELSE <<wrapToolParamNormalization(Tool(N_write, "write", <<>>))>>
              [] tool.name = N_edit ->
                   IF sandboxRoot THEN <<>>
                   ELSE <<wrapToolParamNormalization(Tool(N_edit, "edit", <<>>))>>
              [] OTHER -> <<tool>>
      IN  mapped \o baseTools(Tail(list), sandboxRoot)

\* the list before any policy filter
candidateTools(options) ==
    LET sandboxRoot == sandboxOf(options)
        allowWorkspaceWrites == allowWorkspaceWritesOf(options)
        applyPatchTool ==
            IF ~applyPatchEnabledOf(options)
               \/ (sandboxRoot /\ ~allowWorkspaceWrites)
            THEN <<>>
            ELSE <<Tool(N_apply_patch, "apply_patch", <<>>)>>
    IN  baseTools(codingTools, sandboxRoot)
        \o (IF sandboxRoot /\ allowWorkspaceWrites
            THEN <<createSandboxedEditTool, createSandboxedWriteTool>>
            ELSE <<>>)
        \o applyPatchTool
        \o <<Tool(N_exec, "exec", <<>>), Tool(N_process, "process", <<>>)>>
        \o listProviderAgentTools
        \o createClawdbotTools

MapNormalizeParameters(list) ==
    [i \in 1..Len(list) |-> normalizeToolParameters(list[i])]

MapAbort(list, hasAbortSignal) ==
    [i \in 1..Len(list) |-> wrapToolWithAbortSignal(list[i], hasAbortSignal)]

\* The list returned, or Threw when a policy evaluation throws
createClawdbotCodingTools(options) ==
    LET sandbox == sandboxOf(options)
        effectiveToolsPolicy ==
            resolveEffectiveToolPolicy(options.config, options.sessionKey).policy
        sandboxTools == IF sandbox THEN options.sandbox.tools ELSE NoPolicy
        subagentPolicy == subagentPolicyOf(options)
        allowBackground ==
            isToolAllowedByPolicies(N_process,
                <<effectiveToolsPolicy, sandboxTools, subagentPolicy>>)
        candidates == candidateTools(options)
        toolsFiltered == filterToolsByPolicy(candidates, effectiveToolsPolicy)
        sandboxed == IF toolsFiltered.threw THEN Threw
                     ELSE filterToolsByPolicy(toolsFiltered.value, sandboxTools)
        subagentFiltered ==
            IF sandboxed.threw THEN Threw
            ELSE filterToolsByPolicy(sandboxed.value, subagentPolicy)
    IN  IF allowBackground.threw \/ subagentFiltered.threw THEN Threw
        ELSE LET withAbort(list) ==
                     MapAbort(MapNormalizeParameters(list), options.abortSignal)
             IN  Ok(Eval(withAbort, subagentFiltered.value))

----------------------------------------------------------------------------
(* Invocation parameters *)

\* The value under one key of the params object
V_missing == [t |-> "missing", v |-> <<>>]
V_other == [t |-> "other", v |-> <<>>]
VStr(s) == [t |-> "string", v |-> s]

\* params: an object with the six keys the wrappers look at, a value that is
\* not an object ("nonobject"), or undefined
Params(path, file_path, oldText, old_string, newText, new_string) ==
    [tag |-> "object", path |-> path, file_path |-> file_path,
     oldText |-> oldText, old_string |-> old_string,
     newText |-> newText, new_string |-> new_string]
NonObjectParams ==
    [tag |-> "nonobject", path |-> V_missing, file_path |-> V_missing,
     oldText |-> V_missing, old_string |-> V_missing,
     newText |-> V_missing, new_string |-> V_missing]
UndefinedParams == [NonObjectParams EXCEPT !.tag = "undefined"]

In(params, key) == params[key].t # "missing"

Remap_None(params, legacy, canonical) == params

\* one remap step: legacy -> canonical unless canonical is present
Remap(params, legacy, canonical) ==
    IF In(params, legacy) /\ ~In(params, canonical)
    THEN [params EXCEPT ![canonical] = params[legacy], ![legacy] = V_missing]
    ELSE params

normalizeToolParams_Identity(params) ==
    IF params.tag # "object" THEN UndefinedParams ELSE params

normalizeToolParams(params) ==
    IF params.tag # "object" THEN UndefinedParams
    ELSE Remap(Remap(Remap(params, "file_path", "path"),
                     "old_string", "oldText"),
               "new_string", "newText")

\* normalized ?? params
Coalesce(normalized, params) ==
    IF normalized.tag = "undefined" THEN params ELSE normalized

P_inside == <<"a",".","t","s">>
P_escape == <<".",".","/","x">>
P_absolute == <<"/","e","t","c">>
P_blank == <<" "," ">>
P_empty == <<>>

\* The containment check of the sandbox-paths module: TRUE when the path,
\* resolved against the root, stays inside the root.
assertSandboxPath(filePath) ==
    LET p == Trim(filePath)
    IN  ~(   (Len(p) >= 1 /\ p[1] = "/")
          \/ (Len(p) >= 2 /\ p[1] = "." /\ p[2] = "."))

----------------------------------------------------------------------------
(* Results of the read tool *)

M_png == <<"i","m","a","g","e","/","p","n","g">>
M_jpeg == <<"i","m","a","g","e","/","j","p","e","g">>
M_pdf == <<"a","p","p","l","i","c","a","t","i","o","n","/","p","d","f">>

\* A base64 payload: padded with white space or not, the number of
\* characters that remain after trim(), and the file signature its first
\* bytes decode to ("none": no signature the detector knows).
Payload(padded, len, sig) == [padded |-> padded, len |-> len, sig |-> sig]

\* image.data.trim().length
TrimmedLength(data) == data.len

Min(a, b) == IF a < b THEN a ELSE b

\* The type detector of the media module on the decoded head of the payload
detectMime(sig) ==
    CASE sig = "png" -> Str(M_png)
      [] sig = "jpeg" -> Str(M_jpeg)
      [] sig = "pdf" -> Str(M_pdf)
      [] OTHER -> NoStr

sniffMimeFromBase64(base64) ==
    LET trimmed == TrimmedLength(base64)
        take == Min(256, trimmed)
        sliceLen == take - (take % 4)
    IN  IF trimmed = 0 THEN NoStr
        ELSE IF sliceLen < 8 THEN NoStr
        ELSE detectMime(base64.sig)

StartsWith(text, prefix) ==
    Len(text) >= Len(prefix) /\ SubSeq(text, 1, Len(prefix)) = prefix
EndsWith(text, suffix) ==
    Len(text) >= Len(suffix)
    /\ SubSeq(text, Len(text) - Len(suffix) + 1, Len(text)) = suffix

HeaderPrefix ==
    <<"R","e","a","d"," ","i","m","a","g","e"," ","f","i","l","e"," ","[">>
ImagePrefix == <<"i","m","a","g","e","/">>

rewriteReadImageHeader_Keep(text, mimeType) == text

rewriteReadImageHeader(text, mimeType) ==
    IF StartsWith(text, HeaderPrefix) /\ EndsWith(text, <<"]">>)
    THEN HeaderPrefix \o mimeType \o <<"]">>
    ELSE text

\* content blocks. An image block may lack a string mimeType.
ImageBlock(data, mimeType) ==
    [type |-> "image", data |-> data, mimeType |-> mimeType, text |-> <<>>]
TextBlock(text) ==
    [type |-> "text", data |-> Payload(FALSE, 0, "none"), mimeType |-> NoStr,
     text |-> text]

IsUsableImage(b) == b.type = "image" /\ b.mimeType.defined

\* The outcome of normalizeReadImageResult: the content returned or the
\* error thrown, and whether sniffMimeFromBase64 was called and what it
\* returned.
ReadOutcome(threw, error, content, sniffCalled, sniffed) ==
    [threw |-> threw, error |-> error, content |-> content,
     sniffCalled |-> sniffCalled, sniffed |-> sniffed]

normalizeReadImageResult(content) ==
    LET found == {i \in 1..Len(content) : IsUsableImage(content[i])}
    IN  IF found = {} THEN ReadOutcome(FALSE, "", content, FALSE, NoStr)
        ELSE
          LET image == content[CHOOSE i \in found : \A j \in found : i <= j]
              sniffed == sniffMimeFromBase64(image.data)
          IN  IF TrimmedLength(image.data) = 0
              THEN ReadOutcome(TRUE, "image payload is empty", <<>>, FALSE,
                               NoStr)
              ELSE IF ~sniffed.defined
              THEN ReadOutcome(FALSE, "", content, TRUE, sniffed)
              ELSE IF ~StartsWith(sniffed.s, ImagePrefix)
              THEN ReadOutcome(TRUE, "file looks like another type", <<>>,
                               TRUE, sniffed)
              ELSE IF sniffed = image.mimeType
              THEN ReadOutcome(FALSE, "", content, TRUE, sniffed)
              ELSE
                LET nextContent ==
                      [i \in 1..Len(content) |->
                          IF content[i].type = "image"
                          THEN [content[i] EXCEPT !.mimeType = sniffed]
                          ELSE [content[i] EXCEPT !.text =
                                  rewriteReadImageHeader(@, sniffed.s)]]
                IN  ReadOutcome(FALSE, "", nextContent, TRUE, sniffed)

----------------------------------------------------------------------------
(* Cancellation signals *)

\* A signal as a wrapper sees it: "absent" (undefined), "live", "aborted".
\* A signal handed on is the per-call signal ("call"), the assembly-level one
\* ("asm"), or one derived from the signals in follows, which has fired or not.
NoSignal == [kind |-> "none", via |-> "", follows |-> {}, fired |-> FALSE]
CallSignal == [kind |-> "call", via |-> "", follows |-> {}, fired |-> FALSE]
AsmSignal == [kind |-> "asm", via |-> "", follows |-> {}, fired |-> FALSE]
Derived(via, follows, fired) ==
    [kind |-> "derived", via |-> via, follows |-> follows, fired |-> fired]

combineAbortSignals_FirstOnly(a, b, hasAny) ==
    IF a = "absent" /\ b = "absent" THEN NoSignal
    ELSE IF a # "absent" THEN CallSignal
    ELSE AsmSignal

\* without the two early returns: listeners added to a signal that has
\* already aborted never run
combineAbortSignals_NoEarlyReturn(a, b, hasAny) ==
    IF a = "absent" /\ b = "absent" THEN NoSignal
    ELSE IF a # "absent" /\ b = "absent" THEN CallSignal
    ELSE IF b # "absent" /\ a = "absent" THEN AsmSignal
    ELSE IF hasAny
    THEN Derived("any", {"call", "asm"}, a = "aborted" \/ b = "aborted")
    ELSE Derived("controller", {"call", "asm"}, FALSE)

\* a: the per-call signal, b: the assembly-level signal,
\* hasAny: typeof AbortSignal.any === "function" in this runtime
combineAbortSignals(a, b, hasAny) ==
    IF a = "absent" /\ b = "absent" THEN NoSignal
    ELSE IF a # "absent" /\ b = "absent" THEN CallSignal
    ELSE IF b # "absent" /\ a = "absent" THEN AsmSignal
    ELSE IF a = "aborted" THEN CallSignal
    ELSE IF b = "aborted" THEN AsmSignal
    ELSE IF hasAny THEN Derived("any", {"call", "asm"}, FALSE)
    ELSE Derived("controller", {"call", "asm"}, FALSE)

\* signal.aborted, given the state of the two source signals
SignalAborted(signal, callSig, asmSig) ==
    CASE signal.kind = "none" -> FALSE
      [] signal.kind = "call" -> callSig = "aborted"
      [] signal.kind = "asm" -> asmSig = "aborted"
      [] signal.kind = "derived" -> signal.fired

\* the abort event of source src reaches the signals that follow it
OnAbort(signal, src) ==
    IF signal.kind = "derived" /\ src \in signal.follows
    THEN [signal EXCEPT !.fired = TRUE]
    ELSE signal

----------------------------------------------------------------------------
(* Execution of a wrapped tool *)

NoCheck == [state |-> "none", path |-> <<>>]

\* The synchronous run of the wrappers in layers, outermost first, up to the
\* first await that suspends (the containment check), the start of the
\* underlying tool's execute, or a throw.
\*   ctx: [callSig, asmSig, hasAny]
RECURSIVE Enter(_, _, _, _)
Enter(layers, params, signal, ctx) ==
    IF layers = <<>>
    THEN [pc |-> "running", params |-> params, signal |-> signal,
          rest |-> <<>>, check |-> NoCheck, error |-> ""]
    ELSE
      CASE Head(layers) = "abort" ->
             LET combined == combineAbortSignals(ctx.callSig, ctx.asmSig,
                                                 ctx.hasAny)
             IN  IF SignalAborted(combined, ctx.callSig, ctx.asmSig)
                 THEN [pc |-> "failed", params |-> params, signal |-> combined,
                       rest |-> Tail(layers), check |-> NoCheck,
                       error |-> "AbortError"]
                 ELSE Enter(Tail(layers), params, combined, ctx)
        [] Head(layers) = "guard" ->
             LET normalized == normalizeToolParams(params)
                 filePath == normalized.path
             IN  IF normalized.tag = "object" /\ filePath.t = "string"
                    /\ Trim(filePath.v) # <<>>
                 THEN [pc |-> "checking", params |-> normalized,
                       signal |-> signal, rest |-> Tail(layers),
                       check |-> [state |-> "pending", path |-> filePath.v],
                       error |-> ""]
                 ELSE Enter(Tail(layers), Coalesce(normalized, params),
                            signal, ctx)
        [] Head(layers) \in {"paramnorm", "readimage"} ->
             Enter(Tail(layers), Coalesce(normalizeToolParams(params), params),
                   signal, ctx)

NoCall ==
    [pc |-> "none", tool |-> 0, params |-> UndefinedParams, callSig |-> "absent",
     callSigAtCall |-> "absent", asmSigAtCall |-> "absent",
     received |-> UndefinedParams, pending |-> UndefinedParams,
     signal |-> NoSignal, rest |-> <<>>,
     check |-> NoCheck, started |-> FALSE, error |-> ""]

----------------------------------------------------------------------------
(* Inputs *)

SeqsUpTo(S, n) == UNION {[1..k -> S] : k \in 0..n}

\* tool names presented to a policy
ProbeNames ==
    {N_exec, N_bash, N_BASH, N_Exec_padded, N_write, N_Write_padded,
     N_apply_patch, N_apply_dash_patch, N_read, N_blank}

\* entries of the allow and deny lists presented with them
ProbeEntries == {N_exec, N_BASH, N_Write_padded, N_blank}

ProbeFields ==
    {Absent, Falsy, Truthy} \cup {Arr(l) : l \in SeqsUpTo(ProbeEntries, MaxListLen)}

ProbePolicies ==
    {NoPolicy} \cup {Policy(a, d) : a \in ProbeFields, d \in ProbeFields}

Config(globalTools, mainTools, workTools, subagents, applyPatch) ==
    [tools |-> globalTools,
     agents |-> [a \in AgentIds |-> IF a = "main" THEN mainTools ELSE workTools],
     subagents |-> subagents,
     applyPatch |-> applyPatch]

NoApplyPatch == [enabled |-> FALSE, allowModels |-> Absent]

SessionKeys ==
    {NoSessionKey, SessionKey("main", FALSE), SessionKey("main", TRUE),
     SessionKey("work", TRUE)}

\* inputs of resolveEffectiveToolPolicy
ResolveFields == {Absent, Falsy, Truthy, Arr(<<>>), Arr(<<N_exec>>)}
ResolveAgentPolicies ==
    {NoPolicy} \cup {Policy(a, d) : a \in ResolveFields, d \in ResolveFields}
ResolveGlobalPolicies ==
    {NoPolicy, Policy(Absent, Absent), Policy(Absent, Arr(<<N_exec, N_write>>)),
     Policy(Arr(<<N_read>>), Arr(<<N_exec>>))}
ResolveConfigs ==
    {Config(g, m, w, NoPolicy, NoApplyPatch) :
        g \in ResolveGlobalPolicies, m \in ResolveAgentPolicies,
        w \in {NoPolicy, Policy(Arr(<<N_read>>), Absent)}}

\* inputs of createClawdbotCodingTools
AssemblyGlobalPolicies ==
    {NoPolicy,
     Policy(Absent, Arr(<<N_BASH, N_sessions_history>>)),
     Policy(Arr(<<N_sessions_list, N_sessions_spawn, N_write, N_edit, N_read,
                  N_process>>), Absent),
     Policy(Arr(<<N_exec>>), Arr(<<N_Write_padded>>)),
     Policy(Truthy, Absent)}

AssemblyAgentPolicies ==
    {NoPolicy,
     Policy(Arr(<<>>), Absent),
     Policy(Arr(<<N_sessions_send, N_edit, N_write, N_exec>>), Absent),
     Policy(Absent, Arr(<<N_read>>)),
     Policy(Falsy, Truthy)}

AssemblySubagentConfigs ==
    {NoPolicy,
     Policy(Arr(<<N_sessions_spawn, N_sessions_list, N_read, N_write>>), Absent),
     Policy(Truthy, Arr(<<N_browser>>))}

AssemblySandboxes ==
    {NoSandbox,
     Sandbox(FALSE, "ro", Policy(Absent, Arr(<<N_read>>))),
     Sandbox(TRUE, "rw", NoPolicy),
     Sandbox(TRUE, "rw", Policy(Absent, Arr(<<N_edit, N_browser>>))),
     Sandbox(TRUE, "rw", Policy(Arr(<<N_read, N_write, N_exec>>), Falsy)),
     Sandbox(TRUE, "ro", NoPolicy),
     Sandbox(TRUE, "ro", Policy(Arr(<<N_write, N_edit, N_read>>), Absent)),
     Sandbox(TRUE, "ro", Policy(Absent, Truthy))}

\* the patch-tool settings and whether an abort signal is supplied
ModelSettings ==
    {[cfg |-> NoApplyPatch, provider |-> NoStr, model |-> NoStr,
      abortSignal |-> FALSE],
     [cfg |-> [enabled |-> TRUE, allowModels |-> Arr(<<S_openai_gpt5>>)],
      provider |-> Str(S_openai), model |-> Str(S_gpt5), abortSignal |-> TRUE]}

Options(config, sessionKey, sandbox, abortSignal, hasAny, provider, model) ==
    [config |-> config, sessionKey |-> sessionKey, sandbox |-> sandbox,
     abortSignal |-> abortSignal, hasAbortSignalAny |-> hasAny,
     modelProvider |-> provider, modelId |-> model]

AssemblyOptions ==
    {Options(Config(g, m, NoPolicy, sub, ms.cfg), k, sb, ms.abortSignal, TRUE,
             ms.provider, ms.model) :
        g \in AssemblyGlobalPolicies, m \in AssemblyAgentPolicies,
        sub \in AssemblySubagentConfigs, k \in SessionKeys,
        sb \in AssemblySandboxes, ms \in ModelSettings}

\* the assemblies whose tools are invoked
InvokeOptions ==
    {Options(Config(g, NoPolicy, NoPolicy, NoPolicy, NoApplyPatch),
             NoSessionKey, sb, ab, hasAny, NoStr, NoStr) :
        g \in {Policy(Arr(<<N_read, N_write, N_edit, N_exec>>), Absent)},
        sb \in {NoSandbox, Sandbox(TRUE, "rw", NoPolicy),
                Sandbox(TRUE, "ro", NoPolicy)},
        ab \in BOOLEAN, hasAny \in BOOLEAN}

DefaultOptions ==
    Options(Config(NoPolicy, NoPolicy, NoPolicy, NoPolicy, NoApplyPatch),
            NoSessionKey, NoSandbox, FALSE, TRUE, NoStr, NoStr)

InvokeParams ==
    {UndefinedParams, NonObjectParams,
     Params(V_missing, V_missing, V_missing, V_missing, V_missing, V_missing),
     Params(VStr(P_inside), V_missing, V_missing, V_missing, V_missing, V_missing),
     Params(VStr(P_escape), V_missing, V_missing, V_missing, V_missing, V_missing),
     Params(VStr(P_blank), V_missing, V_missing, V_missing, V_missing, V_missing),
     Params(VStr(P_empty), V_missing, V_missing, V_missing, V_missing, V_missing),
     Params(V_missing, VStr(P_absolute), V_missing, V_missing, V_missing, V_missing),
     Params(VStr(P_inside), VStr(P_escape), V_missing, V_missing, V_missing,
            V_missing),
     Params(V_other, VStr(P_escape), V_missing, V_missing, V_missing, V_missing),
     Params(V_missing, VStr(P_inside), V_missing, VStr(<<"o">>), VStr(<<"n">>),
            VStr(<<"m">>))}

----------------------------------------------------------------------------
(* The state machine *)

NoNormalized == [input |-> NoParameters, output |-> NoParameters]
NoReadResult ==
    [input |-> <<>>, output |-> ReadOutcome(FALSE, "", <<>>, FALSE, NoStr)]
NoNamed == [name |-> N_empty, once |-> N_empty, twice |-> N_empty]

NoProbe == [name |-> N_empty, policy |-> NoPolicy, result |-> Ok(TRUE)]

NoResolve ==
    [config |-> DefaultOptions.config, sessionKey |-> NoSessionKey,
     result |-> [agentId |-> NoAgent, policy |-> NoPolicy]]

Init ==
    /\ phase = "idle"
    /\ probe = NoProbe
    /\ resolved = NoResolve
    /\ opts = DefaultOptions
    /\ tools = <<>>
    /\ asmAborted = FALSE
    /\ call = NoCall
    /\ calls = 0
    /\ flattened = NoNormalized
    /\ readResult = NoReadResult
    /\ named = NoNamed

\* isToolAllowedByPolicyName(name, policy)
EvalPolicy ==
    /\ phase = "idle"
    /\ \E name \in ProbeNames, policy \in ProbePolicies :
          probe' = [name |-> name, policy |-> policy,
                    result |-> isToolAllowedByPolicyName(name, policy)]
    /\ phase' = "probed"
    /\ UNCHANGED <<evals, resolved, opts, tools, asmAborted, call, calls>>

\* resolveEffectiveToolPolicy({config, sessionKey})
ResolvePolicy ==
    /\ phase = "idle"
    /\ \E config \in ResolveConfigs, sessionKey \in SessionKeys :
          resolved' = [config |-> config, sessionKey |-> sessionKey,
                       result |-> resolveEffectiveToolPolicy(config, sessionKey)]
    /\ phase' = "resolved"
    /\ UNCHANGED <<evals, probe, opts, tools, asmAborted, call, calls>>

\* createClawdbotCodingTools(options), options drawn from optionSet
Assemble(optionSet) ==
    /\ phase = "idle"
    /\ \E o \in optionSet :
          \E r \in {createClawdbotCodingTools(o)} :
              /\ opts' = o
              /\ phase' = IF r.threw THEN "threw" ELSE "assembled"
              /\ tools' = IF r.threw THEN <<>> ELSE r.value
    /\ UNCHANGED <<evals, probe, resolved, asmAborted, call, calls>>

AssembleAny == Assemble(AssemblyOptions)

Next == EvalPolicy \/ ResolvePolicy \/ AssembleAny

Spec == Init /\ [][Next]_vars

----------------------------------------------------------------------------
(* Invocation of the assembled tools *)

AsmSigOf(options, aborted) ==
    IF ~options.abortSignal THEN "absent"
    ELSE IF aborted THEN "aborted" ELSE "live"

AssembleForInvoke == Assemble(InvokeOptions)

\* tools[i].execute(toolCallId, params, signal): the wrappers run up to the
\* first suspension
Invoke ==
    /\ phase = "assembled"
    /\ call.pc \in {"none", "done", "failed"}
    /\ calls < MaxCalls
    /\ \E i \in 1..Len(tools), params \in InvokeParams,
          sig \in {"absent", "live", "aborted"} :
          LET asmSig == AsmSigOf(opts, asmAborted)
              ctx == [callSig |-> sig, asmSig |-> asmSig,
                      hasAny |-> opts.hasAbortSignalAny]
              r == Enter(tools[i].layers, params,
                         IF sig = "absent" THEN NoSignal ELSE CallSignal, ctx)
          IN  call' = [pc |-> r.pc, tool |-> i, params |-> params,
                       callSig |-> sig, callSigAtCall |-> sig,
                       asmSigAtCall |-> asmSig,
                       received |-> IF r.pc = "running" THEN r.params
                                    ELSE UndefinedParams,
                       pending |-> r.params,
                       signal |-> r.signal, rest |-> r.rest,
                       check |-> r.check, started |-> r.pc = "running",
                       error |-> r.error]
    /\ calls' = calls + 1
    /\ UNCHANGED <<evals, phase, probe, resolved, opts, tools, asmAborted>>

\* await assertSandboxPath(...) settles; on success the inner execute is called
GuardResolve ==
    /\ call.pc = "checking"
    /\ IF assertSandboxPath(call.check.path)
       THEN LET ctx == [callSig |-> call.callSig,
                        asmSig |-> AsmSigOf(opts, asmAborted),
                        hasAny |-> opts.hasAbortSignalAny]
                r == Enter(call.rest, call.pending, call.signal, ctx)
            IN  call' = [call EXCEPT !.pc = r.pc,
                                     !.received = r.params,
                                     !.rest = r.rest,
                                     !.check.state = "passed",
                                     !.started = (r.pc = "running"),
                                     !.error = r.error]
       ELSE call' = [call EXCEPT !.pc = "failed",
                                 !.check.state = "rejected",
                                 !.error = "SandboxPathError"]
    /\ UNCHANGED <<evals, phase, probe, resolved, opts, tools, asmAborted, calls>>

\* the underlying tool's execute settles; the result of a read goes
\* through ReadFinish
ToolFinish ==
    /\ call.pc = "running"
    /\ \E ok \in BOOLEAN :
          /\ ok => "readimage" \notin Range(tools[call.tool].layers)
          /\ call' = [call EXCEPT !.pc = IF ok THEN "done" ELSE "failed",
                                  !.error = IF ok THEN "" ELSE "ToolError"]
    /\ UNCHANGED <<evals, phase, probe, resolved, opts, tools, asmAborted, calls>>

\* results the underlying read tool returns
InvokeReadResults ==
    {<<TextBlock(<<"o","k">>)>>,
     <<TextBlock(HeaderPrefix \o M_jpeg \o <<"]">>),
       ImageBlock(Payload(FALSE, 300, "png"), Str(M_jpeg))>>,
     <<ImageBlock(Payload(TRUE, 0, "none"), Str(M_png))>>}

\* the underlying read tool returns a result: createClawdbotReadTool passes
\* it through normalizeReadImageResult
ReadFinish ==
    /\ call.pc = "running"
    /\ "readimage" \in Range(tools[call.tool].layers)
    /\ \E content \in InvokeReadResults :
          LET r == normalizeReadImageResult(content)
          IN  call' = [call EXCEPT
                         !.pc = IF r.threw THEN "failed" ELSE "done",
                         !.error = IF r.threw THEN "ReadError" ELSE ""]
    /\ UNCHANGED <<evals, phase, probe, resolved, opts, tools, asmAborted,
                   calls>>

\* the runtime aborts the per-call signal while the call is in flight
AbortCallSignal ==
    /\ call.pc \in {"checking", "running"}
    /\ call.callSig = "live"
    /\ call' = [call EXCEPT !.callSig = "aborted",
                            !.signal = OnAbort(call.signal, "call")]
    /\ UNCHANGED <<evals, phase, probe, resolved, opts, tools, asmAborted, calls>>

\* the caller of createClawdbotCodingTools aborts options.abortSignal
AbortAssembly ==
    /\ phase = "assembled"
    /\ opts.abortSignal
    /\ ~asmAborted
    /\ asmAborted' = TRUE
    /\ call' = IF call.pc \in {"checking", "running"}
               THEN [call EXCEPT !.signal = OnAbort(call.signal, "asm")]
               ELSE call
    /\ UNCHANGED <<evals, phase, probe, resolved, opts, tools, calls>>

NextInvoke ==
    \/ AssembleForInvoke
    \/ Invoke
    \/ GuardResolve
    \/ ToolFinish
    \/ ReadFinish
    \/ AbortCallSignal
    \/ AbortAssembly

SpecInvoke == Init /\ [][NextInvoke]_vars

----------------------------------------------------------------------------
(* Schema normalization (specification SpecSchema) *)

\* longest union presented to normalizeToolParameters
MaxVariants == 2

L_x == Lit("string", "x")
L_y == Lit("string", "y")
L_z == Lit("string", "z")
L_1 == Lit("number", "1")

\* schemas of one property, as alternatives of a union declare it
PropInputs ==
    {EnumProp("string", <<L_x, L_y>>),
     EnumProp("string", <<L_y, L_z>>),
     [EnumProp("string", <<L_y, L_x, L_y>>) EXCEPT !.title = Str(<<"t">>)],
     EnumProp("number", <<L_1>>),
     EnumProp("", <<>>),
     ConstProp("string", L_x),
     PlainProp("string"),
     [PlainProp("number") EXCEPT !.title = Str(<<"n">>)],
     AnyOfProp(<<ConstProp("string", L_z), ConstProp("string", L_x)>>),
     OneOfProp(<<ConstProp("string", L_x), PlainProp("string")>>)}

\* unions whose alternatives declare the same property
ConflictInputs ==
    {Schema(FALSE, NoProps, NoList, List(vs), NoList, FALSE) :
        vs \in SeqsUpTo({Variant(Props(<<Entry("action", p)>>), NoList) :
                            p \in PropInputs}, MaxVariants)}

AB == <<Entry("a", PlainProp("string")), Entry("b", PlainProp("number"))>>

\* alternatives with their required lists
RequiredVariants ==
    {Variant(NoProps, NoList), Variant(NoProps, List(<<"a">>)),
     Variant(Props(<<Entry("a", PlainProp("string"))>>), List(<<"a">>))}
    \cup {Variant(Props(AB), r) :
            r \in {NoList, List(<<>>), List(<<"a">>), List(<<"b">>),
                   List(<<"a", "b">>)}}

UnionInputs ==
    {Schema(hasType, props, req,
            IF key = "anyOf" THEN List(vs) ELSE NoList,
            IF key = "oneOf" THEN List(vs) ELSE NoList, TRUE) :
        hasType \in BOOLEAN,
        props \in {NoProps, Props(<<Entry("c", PlainProp("string"))>>)},
        req \in {NoList, List(<<"b">>)},
        key \in {"anyOf", "oneOf"},
        vs \in SeqsUpTo(RequiredVariants, MaxVariants)}

\* schemas that are not unions
PlainInputs ==
    {NoParameters}
    \cup {Schema(hasType, props, req, NoList, NoList, unsupported) :
            hasType \in BOOLEAN,
            props \in {NoProps, Props(<<>>), Props(AB)},
            req \in {NoList, List(<<>>), List(<<"a">>)},
            unsupported \in BOOLEAN}

\* normalizeToolParameters(tool), the schema of tool drawn from inputs
NormalizeParameters(inputs) ==
    /\ phase = "idle"
    /\ \E schema \in inputs :
          LET tool == WithParameters(Tool(N_browser, "browser", <<>>), schema)
          IN  flattened' =
                  [input |-> schema,
                   output |-> normalizeToolParameters(tool).parameters]
    /\ phase' = "normalized"
    /\ UNCHANGED <<probe, resolved, opts, tools, asmAborted, call, calls,
                   readResult, named>>

NormalizeConflict == NormalizeParameters(ConflictInputs)
NormalizeUnion == NormalizeParameters(UnionInputs)
NormalizePlain == NormalizeParameters(PlainInputs)

NextSchema == NormalizeConflict \/ NormalizeUnion \/ NormalizePlain

SpecSchema == Init /\ [][NextSchema]_vars

----------------------------------------------------------------------------
(* Assembly under the patch-tool settings (specification SpecPatch) *)

S_OpenAI_padded == <<" ","O","p","e","n","A","I"," ">>
S_GPT5_padded == <<"G","P","T","-","5"," ">>
S_OpenAI_GPT5 == <<"O","p","e","n","A","I","/","G","P","T","-","5">>

PatchEntries == {S_openai_gpt5, S_gpt5, S_gpt4, S_OpenAI_GPT5, N_blank}

PatchAllowModels ==
    {Absent, Truthy} \cup {Arr(l) : l \in SeqsUpTo(PatchEntries, MaxListLen)}

PatchProviders ==
    {NoStr, Str(S_openai), Str(S_OpenAI_padded), Str(S_openai_codex),
     Str(S_anthropic)}

PatchModels ==
    {NoStr, Str(S_gpt5), Str(S_GPT5_padded), Str(S_gpt4), Str(S_openai_gpt5),
     Str(N_blank)}

PatchOptions ==
    {Options(Config(NoPolicy, NoPolicy, NoPolicy, NoPolicy,
                    [enabled |-> enabled, allowModels |-> allowModels]),
             NoSessionKey, sb, FALSE, TRUE, provider, model) :
        enabled \in BOOLEAN, allowModels \in PatchAllowModels,
        sb \in {NoSandbox, Sandbox(TRUE, "ro", NoPolicy)},
        provider \in PatchProviders, model \in PatchModels}

AssemblePatch == Assemble(PatchOptions)

NextPatch == AssemblePatch

SpecPatch == Init /\ [][NextPatch]_vars

----------------------------------------------------------------------------
(* Correction of read results (specification SpecImage) *)

\* most blocks in a result
MaxBlocks == 2

Header(mimeType) == HeaderPrefix \o mimeType \o <<"]">>

ReadPayloads ==
    {Payload(FALSE, 0, "none"), Payload(TRUE, 0, "none"),
     Payload(FALSE, 4, "png"), Payload(TRUE, 7, "png"),
     Payload(FALSE, 8, "png"), Payload(TRUE, 11, "none"),
     Payload(FALSE, 300, "png"), Payload(FALSE, 300, "jpeg"),
     Payload(TRUE, 300, "pdf"), Payload(FALSE, 300, "none")}

\* the read tool declares an image type for the image blocks it returns
ReadBlocks ==
    {ImageBlock(d, Str(m)) : d \in ReadPayloads, m \in {M_png, M_jpeg}}
    \cup {ImageBlock(Payload(FALSE, 300, "png"), NoStr)}
    \cup {TextBlock(t) : t \in {Header(M_jpeg), Header(M_png),
                                <<"o","k">>, HeaderPrefix \o M_jpeg}}

ReadResults == SeqsUpTo(ReadBlocks, MaxBlocks)

\* normalizeReadImageResult(result, filePath)
CorrectReadResult ==
    /\ phase = "idle"
    /\ \E content \in ReadResults :
          readResult' = [input |-> content,
                         output |-> normalizeReadImageResult(content)]
    /\ phase' = "corrected"
    /\ UNCHANGED <<probe, resolved, opts, tools, asmAborted, call, calls,
                   flattened, named>>

NextImage == CorrectReadResult

SpecImage == Init /\ [][NextImage]_vars

----------------------------------------------------------------------------
(* Name normalization (specification SpecName) *)

\* longest name made of NameChars
MaxNameLen == 4

NameChars == {"b", "a", "s", "h", "B", " "}

NameInputs ==
    SeqsUpTo(NameChars, MaxNameLen) \cup ProbeNames
    \cup {N_empty, <<" ","B","a","s","h"," ">>,
          <<"A","p","p","l","y","-","P","a","t","c","h","\n">>}

\* normalizeToolName(name), and normalizeToolName of what it returned
NormalizeName ==
    /\ phase = "idle"
    /\ \E name \in NameInputs :
          LET once == normalizeToolName(name)
          IN  named' = [name |-> name, once |-> once,
                        twice |-> normalizeToolName(once)]
    /\ phase' = "named"
    /\ UNCHANGED <<probe, resolved, opts, tools, asmAborted, call, calls,
                   flattened, readResult>>

NextName == NormalizeName

SpecName == Init /\ [][NextName]_vars

----------------------------------------------------------------------------
(* Properties of policy evaluation (specification Spec) *)

ProbeDeny == normalizeToolNames(probe.policy.deny)
ProbeAllow == normalizeToolNames(probe.policy.allow)
ProbeEvaluated ==
    phase = "probed" /\ probe.policy.defined
    /\ ~ProbeDeny.threw /\ ~ProbeAllow.threw

\* C1: deny always wins over allow. When the normalized tool name is in the
\* policy's normalized deny list, isToolAllowedByPolicyName never answers
\* true, and answers false for every allow list.
C1_DenyWinsOverAllow ==
    (/\ phase = "probed"
     /\ probe.policy.defined
     /\ ~ProbeDeny.threw
     /\ normalizeToolName(probe.name) \in Range(ProbeDeny.value))
    => /\ ~probe.result.value
       /\ (~ProbeAllow.threw => probe.result = Ok(FALSE))

\* allow = {exec}, deny = {exec}: exec is rejected
C1_Witness ==
    /\ phase = "probed"
    /\ probe.name = N_exec
    /\ probe.policy.defined
    /\ probe.policy.allow = Arr(<<N_exec>>)
    /\ probe.policy.deny = Arr(<<N_exec>>)
    /\ probe.result = Ok(FALSE)

\* Spellings of one tool: the canonical name, its legacy alias, and either
\* in another letter case or with surrounding white space
SynonymClasses ==
    {{N_exec, N_bash, N_BASH, N_Exec_padded},
     {N_write, N_Write_padded},
     {N_apply_patch, N_apply_dash_patch}}

\* C6: names are compared in canonical form on both sides. A deny entry
\* rejects every spelling of the tool it names: denying exec rejects bash,
\* and a deny entry written as the alias, in another case or with white
\* space around it rejects the canonical tool.
C6_DenyCoversSynonyms ==
    (phase = "probed" /\ probe.policy.defined /\ IsArray(probe.policy.deny))
    => \A cls \in SynonymClasses :
          (/\ probe.name \in cls
           /\ \E i \in 1..Len(probe.policy.deny.items) :
                 probe.policy.deny.items[i] \in cls)
          => ~probe.result.value

\* deny = {exec}, no allow list: bash is rejected
C6_Witness ==
    /\ phase = "probed"
    /\ probe.name = N_bash
    /\ probe.policy.defined
    /\ probe.policy.allow = Absent
    /\ probe.policy.deny = Arr(<<N_exec>>)
    /\ probe.result = Ok(FALSE)

ProbeNotDenied ==
    ProbeEvaluated /\ normalizeToolName(probe.name) \notin Range(ProbeDeny.value)

\* C7 as stated: a name that is not denied is allowed when the policy has no
\* allow set, and otherwise exactly when its normalized form is in the
\* normalized allow set (an allow set being a list with at least one name)
C7_AllowedIffInAllowSet ==
    ProbeNotDenied
    => probe.result.value =
          (IF Len(ProbeAllow.value) > 0
           THEN normalizeToolName(probe.name) \in Range(ProbeAllow.value)
           ELSE TRUE)

\* C7 amended: a name that is not denied is allowed when the allow list is
\* missing or normalizes to no name at all; otherwise it is allowed exactly
\* when its normalized form is in the normalized allow set, or it is
\* apply_patch and the allow set holds exec.
C7_AllowedIffInAllowSetOrPatchWithExec ==
    ProbeNotDenied
    => probe.result.value =
          (IF Len(ProbeAllow.value) > 0
           THEN \/ normalizeToolName(probe.name) \in Range(ProbeAllow.value)
                \/ /\ normalizeToolName(probe.name) = N_apply_patch
                   /\ N_exec \in Range(ProbeAllow.value)
           ELSE TRUE)

\* allow = {exec}: apply_patch, not a member, is allowed
C7_Witness ==
    /\ phase = "probed"
    /\ probe.name = N_apply_patch
    /\ probe.policy.defined
    /\ probe.policy.allow = Arr(<<N_exec>>)
    /\ probe.policy.deny = Absent
    /\ probe.result = Ok(TRUE)

----------------------------------------------------------------------------
(* Properties of policy resolution (specification Spec) *)

\* the per-agent tools object of the agent the session key names
ResolvedAgentTools ==
    IF resolved.sessionKey.defined
    THEN resolved.config.agents[resolved.sessionKey.agent]
    ELSE NoPolicy

\* the per-agent config lists at least one allow or deny entry
HasPolicyEntries(p) ==
    /\ p.defined
    /\ \/ IsArray(p.allow) /\ Len(p.allow.items) > 0
       \/ IsArray(p.deny) /\ Len(p.deny.items) > 0

\* the per-agent config has an allow or deny array, empty or not
HasPolicyLists(p) == p.defined /\ (IsArray(p.allow) \/ IsArray(p.deny))

\* whatever the global policy is, the result is the same
GlobalPolicyIgnored ==
    \A g \in ResolveGlobalPolicies :
        resolveEffectiveToolPolicy([resolved.config EXCEPT !.tools = g],
                                   resolved.sessionKey).policy
        = resolved.result.policy

\* the two policies admit and reject the same names
SamePolicyEffect(p, q) ==
    \A n \in ProbeNames :
        isToolAllowedByPolicyName(n, p) = isToolAllowedByPolicyName(n, q)

\* every allow and deny field of the policy is a list or missing
WellFormed(p) ==
    p.allow.kind \in {"absent", "array"} /\ p.deny.kind \in {"absent", "array"}

\* C3 as stated, for configurations without malformed fields: when the
\* per-agent config defines any allow or deny entry the result is the
\* per-agent policy alone; otherwise it is the global policy (read here as:
\* a policy that decides every name as the global one does)
C3_AgentPolicyExclusiveIfEntries ==
    (/\ phase = "resolved"
     /\ WellFormed(ResolvedAgentTools)
     /\ WellFormed(resolved.config.tools))
    => IF HasPolicyEntries(ResolvedAgentTools)
       THEN resolved.result.policy = ResolvedAgentTools /\ GlobalPolicyIgnored
       ELSE SamePolicyEffect(resolved.result.policy, resolved.config.tools)

\* C3 amended: when the per-agent config of the agent derived from the
\* session key has an allow or a deny field that is an array, an empty array
\* included, the result is the per-agent policy alone and the global policy
\* has no influence; otherwise the result is the global policy.
C3_AgentPolicyExclusiveIfLists ==
    phase = "resolved"
    => IF HasPolicyLists(ResolvedAgentTools)
       THEN resolved.result.policy = ResolvedAgentTools /\ GlobalPolicyIgnored
       ELSE resolved.result.policy = resolved.config.tools

\* an agent that denies nothing itself, under a global policy that denies exec
C3_Witness ==
    /\ phase = "resolved"
    /\ resolved.sessionKey = SessionKey("main", FALSE)
    /\ ResolvedAgentTools = Policy(Arr(<<N_exec>>), Arr(<<>>))
    /\ resolved.config.tools = Policy(Arr(<<N_read>>), Arr(<<N_exec>>))
    /\ resolved.result.policy = ResolvedAgentTools

----------------------------------------------------------------------------
(* Properties of the assembled list (specification Spec) *)

SandboxEnabled == opts.sandbox.present /\ opts.sandbox.enabled
SubagentSession == opts.sessionKey.defined /\ opts.sessionKey.subagent

\* C2: every tool of the list createClawdbotCodingTools returns is allowed
\* by the effective (per-agent or global) policy, by the sandbox policy when
\* a sandbox is enabled, and by the subagent policy in a subagent session.
C2_ListPassesEveryPolicy ==
    phase = "assembled"
    => \A i \in 1..Len(tools) :
          /\ isToolAllowedByPolicyName(tools[i].name,
                resolveEffectiveToolPolicy(opts.config, opts.sessionKey).policy)
             = Ok(TRUE)
          /\ SandboxEnabled
             => isToolAllowedByPolicyName(tools[i].name, opts.sandbox.tools)
                = Ok(TRUE)
          /\ SubagentSession
             => isToolAllowedByPolicyName(tools[i].name,
                   resolveSubagentToolPolicy(opts.config.subagents))
                = Ok(TRUE)

\* a subagent session in a sandbox with a policy of its own, which removed
\* tools and left some
C2_Witness ==
    /\ phase = "assembled"
    /\ SandboxEnabled /\ opts.sandbox.tools.defined
    /\ SubagentSession
    /\ resolveEffectiveToolPolicy(opts.config, opts.sessionKey).policy.defined
    /\ Len(tools) > 0
    /\ Len(tools) < Len(candidateTools(opts))

BaselineDenied ==
    {N_sessions_list, N_sessions_history, N_sessions_send, N_sessions_spawn}

\* C4: in a subagent session the list holds none of the four session tools,
\* whatever the global, per-agent and subagent settings allow or deny.
C4_SubagentBaselineDeny ==
    (phase = "assembled" /\ SubagentSession)
    => \A i \in 1..Len(tools) : normalizeToolName(tools[i].name) \notin BaselineDenied

\* no subagent settings, and a global policy that allows two of the four
C4_Witness ==
    /\ phase = "assembled"
    /\ SubagentSession
    /\ ~opts.config.subagents.defined
    /\ LET p == resolveEffectiveToolPolicy(opts.config, opts.sessionKey).policy
       IN  /\ p.defined /\ IsArray(p.allow)
           /\ N_sessions_list \in Range(p.allow.items)
           /\ N_sessions_spawn \in Range(p.allow.items)
    /\ Len(tools) > 0

\* C5: with an enabled sandbox whose workspace access is read-only the list
\* holds neither a write nor an edit tool, whatever the policies say.
C5_ReadOnlySandboxNoWriteEdit ==
    (phase = "assembled" /\ SandboxEnabled /\ opts.sandbox.workspaceAccess = "ro")
    => \A i \in 1..Len(tools) :
          /\ normalizeToolName(tools[i].name) \notin {N_write, N_edit}
          /\ tools[i].impl \notin {"write", "edit"}

\* a read-only sandbox whose own policy allows write and edit
C5_Witness ==
    /\ phase = "assembled"
    /\ SandboxEnabled /\ opts.sandbox.workspaceAccess = "ro"
    /\ opts.sandbox.tools.defined /\ IsArray(opts.sandbox.tools.allow)
    /\ N_write \in Range(opts.sandbox.tools.allow.items)
    /\ N_edit \in Range(opts.sandbox.tools.allow.items)
    /\ ~resolveEffectiveToolPolicy(opts.config, opts.sessionKey).policy.defined
    /\ Len(tools) > 0

----------------------------------------------------------------------------
(* Properties of an invocation (specification SpecInvoke) *)

\* C8: when options.abortSignal was supplied and the per-call signal or the
\* assembly-level signal has already aborted at the time of the call, the
\* call fails with an AbortError, no containment check is started and the
\* underlying tool's execute is never called.
C8_AbortedBeforeCallNeverRuns ==
    (/\ call.pc # "none"
     /\ opts.abortSignal
     /\ (call.callSigAtCall = "aborted" \/ call.asmSigAtCall = "aborted"))
    => /\ call.pc = "failed"
       /\ call.error = "AbortError"
       /\ ~call.started
       /\ call.check.state = "none"

\* the assembly-level signal aborted before a call whose own signal is live
C8_Witness ==
    /\ call.pc = "failed"
    /\ call.error = "AbortError"
    /\ call.callSigAtCall = "live"
    /\ call.asmSigAtCall = "aborted"
    /\ ~call.started

\* C9: when options.abortSignal was supplied, the signal handed to the
\* underlying tool is aborted as soon as the per-call signal or the
\* assembly-level signal is, at any time while the call is in flight.
C9_HandedSignalFollowsBoth ==
    (/\ phase = "assembled"
     /\ opts.abortSignal
     /\ call.pc \in {"checking", "running"})
    => ((call.callSig = "aborted" \/ asmAborted)
        => SignalAborted(call.signal, call.callSig, AsmSigOf(opts, asmAborted)))

\* the assembly-level signal aborts while the underlying tool runs with a
\* live per-call signal
C9_Witness ==
    /\ call.pc = "running"
    /\ opts.abortSignal
    /\ call.callSig = "live"
    /\ call.asmSigAtCall = "live"
    /\ asmAborted
    /\ call.signal.kind = "derived"
    /\ call.signal.fired

SandboxedFileCall ==
    /\ call.pc # "none"
    /\ SandboxEnabled
    /\ tools[call.tool].impl \in {"read", "write", "edit"}

\* the containment check precedes the underlying tool
CheckedBeforeRun ==
    /\ call.started
       => call.check.state = "passed" /\ call.check.path = call.params.path.v
    /\ call.check.state = "pending" => ~call.started
    /\ call.check.state = "rejected"
       => ~call.started /\ call.pc = "failed"

\* C10 as stated: every invocation of a sandboxed read, write or edit tool
\* that carries a string path is checked against the root before the
\* underlying tool runs; without a sandbox root no check is made
C10_StringPathCheckedBeforeRun ==
    /\ (SandboxedFileCall /\ call.params.tag = "object"
        /\ call.params.path.t = "string")
       => CheckedBeforeRun
    /\ (call.pc # "none" /\ ~SandboxEnabled) => call.check.state = "none"

\* C10 amended: every invocation of a sandboxed read, write or edit tool that
\* carries a string path which is not blank (empty after trimming) is checked
\* against the root before the underlying tool runs: the check has passed
\* when the underlying execute starts, and a rejected path fails the call
\* without starting it. A blank path is not checked. Without a sandbox root
\* no check is made.
C10_NonBlankPathCheckedBeforeRun ==
    /\ (SandboxedFileCall /\ call.params.tag = "object"
        /\ call.params.path.t = "string" /\ Trim(call.params.path.v) # <<>>)
       => CheckedBeforeRun
    /\ (call.pc # "none" /\ ~SandboxEnabled) => call.check.state = "none"

\* an escaping path given to a sandboxed tool: rejected, never run
C10_Witness ==
    /\ SandboxedFileCall
    /\ call.params.path = VStr(P_escape)
    /\ call.check.state = "rejected"
    /\ call.pc = "failed"
    /\ ~call.started

----------------------------------------------------------------------------
(* Properties of the legacy-parameter remap (specification SpecInvoke) *)

LegacyKeys == {"file_path", "old_string", "new_string"}
CanonicalKey(legacy) ==
    CASE legacy = "file_path" -> "path"
      [] legacy = "old_string" -> "oldText"
      [] legacy = "new_string" -> "newText"

RemappingToolCall ==
    /\ call.started
    /\ tools[call.tool].impl \in {"read", "write", "edit"}
    /\ call.params.tag = "object"

\* C11: when the underlying read, write or edit tool is invoked, a canonical
\* key (path, oldText, newText) present in the invocation has kept its
\* value, and a legacy key (file_path, old_string, new_string) given without
\* its canonical key has been moved to the canonical key.
C11_LegacyRemappedCanonicalKept ==
    RemappingToolCall
    => \A legacy \in LegacyKeys :
          LET canonical == CanonicalKey(legacy)
          IN  /\ In(call.params, canonical)
                 => call.received[canonical] = call.params[canonical]
              /\ (In(call.params, legacy) /\ ~In(call.params, canonical))
                 => /\ call.received[canonical] = call.params[legacy]
                    /\ ~In(call.received, legacy)

\* an edit with old_string alone and with both newText and new_string
C11_Witness ==
    /\ RemappingToolCall
    /\ call.params.old_string = VStr(<<"o">>) /\ ~In(call.params, "oldText")
    /\ call.params.newText = VStr(<<"n">>)
    /\ call.params.new_string = VStr(<<"m">>)
    /\ call.received.oldText = VStr(<<"o">>)
    /\ call.received.newText = VStr(<<"n">>)

----------------------------------------------------------------------------
(* Properties of schema normalization (specification SpecSchema) *)

InputVariants ==
    IF flattened.input.anyOf.present THEN flattened.input.anyOf.items
    ELSE flattened.input.oneOf.items

IsUnion(schema) == schema.anyOf.present \/ schema.oneOf.present

\* the alternatives that define object properties
ObjectVariants ==
    {i \in 1..Len(InputVariants) : InputVariants[i].properties.present}

RequiredBy(variant) ==
    IF variant.required.present THEN Range(variant.required.items) ELSE {}

\* the keys every alternative with properties lists as required
RequiredByAll ==
    IF ObjectVariants = {} THEN {}
    ELSE {k \in {"a", "b", "c", "action"} :
            \A i \in ObjectVariants : k \in RequiredBy(InputVariants[i])}

\* C12: when a union without a top-level required list is flattened, the
\* required list of the result holds exactly the keys that every
\* alternative with object properties lists as required; alternatives
\* requiring [a, b] and [a] give required = [a].
C12_RequiredIsIntersection ==
    (/\ phase = "normalized"
     /\ IsUnion(flattened.input)
     /\ ~flattened.input.required.present
     /\ ~IsUnion(flattened.output))
    => /\ Range(flattened.output.required.items) = RequiredByAll
       /\ flattened.output.required.present = (RequiredByAll # {})
       /\ (/\ Len(InputVariants) = 2
           /\ InputVariants[1] = Variant(Props(AB), List(<<"a", "b">>))
           /\ InputVariants[2] = Variant(Props(AB), List(<<"a">>)))
          => flattened.output.required = List(<<"a">>)

\* alternatives requiring [a, b] and [a]: the flattened schema requires [a]
C12_Witness ==
    /\ phase = "normalized"
    /\ flattened.input.anyOf.present
    /\ ~flattened.input.required.present
    /\ InputVariants = <<Variant(Props(AB), List(<<"a", "b">>)),
                         Variant(Props(AB), List(<<"a">>))>>
    /\ flattened.output.required = List(<<"a">>)
    /\ ~IsUnion(flattened.output)

\* the schemas the alternatives declare for the property action
DeclaresAction(variant) ==
    /\ variant.properties.present
    /\ "action" \in Keys(variant.properties.entries)
ActionOf(entries) == entries[Lookup(entries, "action")].schema
ActionSchemas ==
    [i \in 1..Len(InputVariants) |->
        ActionOf(InputVariants[i].properties.entries)]

\* an enum list, a const, or a union of enumerations
RECURSIVE IsEnumeration(_)
IsEnumeration(p) ==
    \/ p.enum.present
    \/ p.const.present
    \/ LET vs == IF p.anyOf.present THEN p.anyOf.items ELSE p.oneOf.items
       IN  /\ vs # <<>>
           /\ \A i \in 1..Len(vs) : IsEnumeration(vs[i])

\* the literal values a property schema names, in declaration order
RECURSIVE LiteralValues(_)
LiteralValues(p) ==
    IF p.enum.present THEN p.enum.items
    ELSE IF p.const.present THEN <<p.const.value>>
    ELSE LET vs == IF p.anyOf.present THEN p.anyOf.items ELSE p.oneOf.items
             RECURSIVE concat(_)
             concat(n) ==
                 IF n = 0 THEN <<>> ELSE concat(n - 1) \o LiteralValues(vs[n])
         IN  concat(Len(vs))

RECURSIVE AllLiteralValues(_)
AllLiteralValues(n) ==
    IF n = 0 THEN <<>>
    ELSE AllLiteralValues(n - 1) \o LiteralValues(ActionSchemas[n])

FirstIndex(seq, v) == CHOOSE i \in 1..Len(seq) : seq[i] = v /\ \A j \in 1..(i - 1) : seq[j] # v

\* r lists every value of vals once, in the order of first occurrence
DuplicateFreeUnion(r, vals) ==
    /\ Range(r) = Range(vals)
    /\ \A i, j \in 1..Len(r) :
          i < j => /\ r[i] # r[j]
                   /\ FirstIndex(vals, r[i]) < FirstIndex(vals, r[j])

\* C13: when every alternative of a flattened union declares the property
\* action and one of the declarations is an enumeration (an enum list, a
\* const, or a union of those), the merged property is the enumeration of
\* all their literal values, each once and in declaration order, and has a
\* type exactly when all values have the same primitive type; when none of
\* the declarations is an enumeration the merged property is the schema of
\* the first alternative.
C13_EnumUnionOrFirstSeen ==
    (/\ phase = "normalized"
     /\ flattened.input.anyOf.present
     /\ Len(InputVariants) >= 2
     /\ \A i \in 1..Len(InputVariants) : DeclaresAction(InputVariants[i]))
    => LET merged == ActionOf(flattened.output.properties.entries)
           values == AllLiteralValues(Len(InputVariants))
           types == {values[i].ty : i \in 1..Len(values)}
       IN  IF \E i \in 1..Len(InputVariants) : IsEnumeration(ActionSchemas[i])
           THEN /\ merged.enum.present
                /\ DuplicateFreeUnion(merged.enum.items, values)
                /\ merged.type =
                     (IF Cardinality(types) = 1
                      THEN (CHOOSE t \in types : TRUE) ELSE "")
                /\ (/\ Len(InputVariants) = 2
                    /\ ActionSchemas[1].enum = List(<<L_x, L_y>>)
                    /\ ActionSchemas[2].enum = List(<<L_y, L_z>>))
                   => /\ merged.enum = List(<<L_x, L_y, L_z>>)
                      /\ merged.type = "string"
           ELSE merged = ActionSchemas[1]

----------------------------------------------------------------------------
(* Properties of the patch-tool gating (specification SpecPatch) *)

HasPatchTool == \E i \in 1..Len(tools) : tools[i].name = N_apply_patch

Canonical(s) == ToLowerCase(Trim(s))

PatchFlag == opts.config.applyPatch.enabled
PatchAllowList ==
    IF IsArray(opts.config.applyPatch.allowModels)
    THEN opts.config.applyPatch.allowModels.items ELSE <<>>

ProviderListed ==
    /\ opts.modelProvider.defined
    /\ Canonical(opts.modelProvider.s) \in {S_openai, S_openai_codex}

\* the model id equals an entry, alone or behind its provider and a slash
ModelListed ==
    /\ opts.modelId.defined
    /\ Canonical(opts.modelId.s) # <<>>
    /\ \E i \in 1..Len(PatchAllowList) :
          LET entry == Canonical(PatchAllowList[i])
          IN  \/ entry = Canonical(opts.modelId.s)
              \/ entry = Canonical(opts.modelProvider.s) \o <<"/">>
                           \o Canonical(opts.modelId.s)

ReadOnlySandbox == SandboxEnabled /\ opts.sandbox.workspaceAccess = "ro"

\* C14: the list holds the patch tool only if the flag is enabled, the
\* provider is openai or openai-codex and, when the model allow-list has
\* entries, the model id matches one of them as id or as provider/id. With
\* allowModels = [openai/gpt-5] and provider openai, model gpt-5 has the
\* tool, model gpt-4 and a missing model id do not; with an empty or absent
\* allow-list every model of a listed provider has it (outside a read-only
\* sandbox, with no policy set).
C14_PatchToolOnlyWhenGated ==
    phase = "assembled"
    => /\ HasPatchTool
          => /\ PatchFlag
             /\ ProviderListed
             /\ PatchAllowList # <<>> => ModelListed
       /\ (/\ PatchFlag /\ ~ReadOnlySandbox
           /\ ~resolveEffectiveToolPolicy(opts.config, opts.sessionKey).policy.defined
           /\ opts.modelProvider = Str(S_openai)
           /\ PatchAllowList = <<S_openai_gpt5>>)
          => /\ opts.modelId = Str(S_gpt5) => HasPatchTool
             /\ opts.modelId = Str(S_gpt4) => ~HasPatchTool
             /\ ~opts.modelId.defined => ~HasPatchTool
       /\ (/\ PatchFlag /\ ~ReadOnlySandbox
           /\ ~resolveEffectiveToolPolicy(opts.config, opts.sessionKey).policy.defined
           /\ ProviderListed
           /\ PatchAllowList = <<>>)
          => HasPatchTool

\* provider OpenAI, model GPT-5, allow-list [gpt-4, openai/gpt-5]
C14_Witness ==
    /\ phase = "assembled"
    /\ HasPatchTool
    /\ opts.modelProvider = Str(S_OpenAI_padded)
    /\ opts.modelId = Str(S_GPT5_padded)
    /\ PatchAllowList = <<S_gpt4, S_openai_gpt5>>

----------------------------------------------------------------------------
(* Properties of the correction of read results (specification SpecImage) *)

\* the first image block of the result with a declared type
ImageIndexes ==
    {i \in 1..Len(readResult.input) :
        readResult.input[i].type = "image" /\ readResult.input[i].mimeType.defined}
FirstImage == CHOOSE i \in ImageIndexes : \A j \in ImageIndexes : i <= j
Declared == readResult.input[FirstImage].mimeType

ImageTypes == {M_png, M_jpeg}

\* C15: for a read result with an image block: an empty payload fails the
\* call and nothing is sniffed; when the sniffing gives no type or the
\* declared one the result is returned as it came; when it gives a type
\* that is not an image type the call fails; when it gives another image
\* type the block has that type afterwards and a header text naming the
\* declared type names the sniffed one. A block declared image/jpeg with
\* the signature of a PNG comes back as image/png.
C15_ImageResultCorrected ==
    (phase = "corrected" /\ ImageIndexes # {})
    => LET in == readResult.input
           out == readResult.output
           data == in[FirstImage].data
       IN  /\ data.len = 0 => out.threw /\ ~out.sniffCalled
           /\ (data.len > 0 /\ out.sniffCalled
               /\ (~out.sniffed.defined \/ out.sniffed = Declared))
              => ~out.threw /\ out.content = in
           /\ (out.sniffed.defined /\ out.sniffed.s \notin ImageTypes)
              => out.threw
           /\ (out.sniffed.defined /\ out.sniffed.s \in ImageTypes
               /\ out.sniffed # Declared)
              => /\ ~out.threw
                 /\ Len(out.content) = Len(in)
                 /\ out.content[FirstImage] =
                       [in[FirstImage] EXCEPT !.mimeType = out.sniffed]
                 /\ \A i \in 1..Len(in) :
                       in[i] = TextBlock(Header(Declared.s))
                       => out.content[i] = TextBlock(Header(out.sniffed.s))
           /\ data.len > 0 => out.sniffCalled
           /\ (Declared = Str(M_jpeg) /\ data = Payload(FALSE, 300, "png"))
              => /\ ~out.threw
                 /\ out.content[FirstImage].mimeType = Str(M_png)

\* a header and a block declared image/jpeg whose payload is a PNG
C15_Witness ==
    /\ phase = "corrected"
    /\ readResult.input =
          <<TextBlock(Header(M_jpeg)),
            ImageBlock(Payload(FALSE, 300, "png"), Str(M_jpeg))>>
    /\ readResult.output.content =
          <<TextBlock(Header(M_png)),
            ImageBlock(Payload(FALSE, 300, "png"), Str(M_png))>>

----------------------------------------------------------------------------
(* Properties of malformed policies (specification Spec) *)

\* a field that is missing or not an array, read as no restriction
PermissiveField(field) == IF IsArray(field) THEN field ELSE Absent
PermissivePolicy(policy) ==
    IF ~policy.defined THEN policy
    ELSE Policy(PermissiveField(policy.allow), PermissiveField(policy.deny))
PermissiveOptions(options) ==
    [options EXCEPT
       !.config.tools = PermissivePolicy(@),
       !.config.agents = [a \in AgentIds |-> PermissivePolicy(@[a])],
       !.config.subagents = PermissivePolicy(@),
       !.sandbox.tools = PermissivePolicy(@)]

\* C16: an allow or deny field that is missing or is not an array restricts
\* nothing, in the global, per-agent, sandbox and subagent policy alike:
\* the evaluation of a policy and the assembly return what they return
\* without the field, and neither throws.
C16_MalformedFieldsPermissive ==
    /\ phase # "threw"
    /\ phase = "probed"
       => /\ ~probe.result.threw
          /\ probe.result = isToolAllowedByPolicyName(
                                probe.name, PermissivePolicy(probe.policy))
    /\ phase = "assembled"
       => Ok(tools) = createClawdbotCodingTools(PermissiveOptions(opts))

----------------------------------------------------------------------------
(* Properties of the schemas of the assembled list (specification Spec) *)

\* C17: no tool of the list createClawdbotCodingTools returns has a
\* parameter schema that still carries a keyword the provider rejects,
\* whichever rule normalizeToolParameters applied to it; a schema without
\* properties, required list and union is otherwise unchanged.
C17_EveryToolSchemaScrubbed ==
    phase = "assembled"
    => \A i \in 1..Len(tools) :
          /\ ~tools[i].parameters.unsupported
          /\ tools[i].name = N_login
             => tools[i].parameters =
                   [NoArgumentSchema EXCEPT !.unsupported = FALSE]

----------------------------------------------------------------------------
(* Properties of the flattening of unions (specification SpecSchema) *)

VariantKeys ==
    UNION {Keys(InputVariants[i].properties.entries) : i \in ObjectVariants}

\* C19: every schema with an anyOf or oneOf list of object alternatives,
\* with or without a top-level type and properties, comes out of
\* normalizeToolParameters as one schema of type object without a union,
\* whose properties hold the properties of the alternatives; only a schema
\* without anyOf and oneOf is returned with its own fields kept.
C19_EveryUnionFlattened ==
    (phase = "normalized" /\ IsUnion(flattened.input) /\ ObjectVariants # {})
    => /\ flattened.output.hasType
       /\ ~IsUnion(flattened.output)
       /\ flattened.output.properties.present
       /\ VariantKeys \subseteq Keys(flattened.output.properties.entries)

----------------------------------------------------------------------------
(* Properties of name normalization (specification SpecName) *)

\* trimmed, lower-case and not an alias key
IsCanonicalName(n) ==
    /\ n # <<>> => (n[1] \notin WhiteSpace /\ n[Len(n)] \notin WhiteSpace)
    /\ \A i \in 1..Len(n) : n[i] \notin Range(UpperChars)
    /\ n \notin AliasKeys

----------------------------------------------------------------------------
(* Properties of the containment of legacy paths (specification SpecInvoke) *)

\* the path is given under file_path alone
LegacyPathOnly ==
    /\ call.params.tag = "object"
    /\ ~In(call.params, "path")
    /\ call.params.file_path.t = "string"
    /\ Trim(call.params.file_path.v) # <<>>

\* C20: in a call of a sandboxed read, write or edit tool with the path
\* under file_path alone, the containment check is made on that value
\* (unless the call is aborted first), the underlying tool starts only
\* after the check has passed and never with a value the check rejects; and whenever a check was made, the path the
\* underlying tool receives is the path that was checked.
C20_LegacyPathContained ==
    SandboxedFileCall
    => /\ LegacyPathOnly
          => /\ call.error # "AbortError" => call.check.state # "none"
             /\ call.check.state # "none"
                => call.check.path = call.params.file_path.v
             /\ call.started => call.check.state = "passed"
             /\ ~assertSandboxPath(call.params.file_path.v) => ~call.started
       /\ (call.started /\ call.check.state # "none")
          => /\ call.check.state = "passed"
             /\ call.received.path = VStr(call.check.path)
             /\ ~In(call.received, "file_path")
                \/ call.received.file_path = call.params.file_path

\* an absolute path outside the root under file_path: rejected, not run
C20_Witness ==
    /\ SandboxedFileCall
    /\ call.params.file_path = VStr(P_absolute)
    /\ ~In(call.params, "path")
    /\ call.check = [state |-> "rejected", path |-> P_absolute]
    /\ call.pc = "failed"
    /\ ~call.started

====
